---- MODULE Spec2Model ----
(***************************************************************************)
(* SQLRunner._split_sql_statements (src/sql_runner.py) as a state machine. *)
(* A text is a sequence of one-character strings.  The operator            *)
(* SplitSqlStatements computes what the method computes: the line-oriented *)
(* comment removal (lines 46-59), then the character scan (lines 61-96).   *)
(* Besides the characters it keeps where they came from: clean_idx gives   *)
(* for every character of clean_sql its position in the input, and spans   *)
(* gives for every emitted statement its slice of clean_sql.               *)
(* RunSqlSpec is run_sql.execute_sql_file (src/run_sql.py): the whole-file  *)
(* attempt and, when it fails, remove_sql_comments, the split at every      *)
(* semicolon and execute_statements.                                        *)
(* ExecSpec is the statement loop of SQLRunner.execute_file and of          *)
(* run_sql.execute_statements over a list of statements, with an engine     *)
(* that accepts or rejects each statement.                                  *)
(* QuerySpec is SQLRunner.run_query on a query made of words and typed      *)
(* characters.                                                              *)
(* FileSpec is run_sql.execute_sql_file on a file written statement by      *)
(* statement, with an engine that executes the statements of a text in      *)
(* order and stops at the first one it rejects.                             *)
(* SessionSpec is sql_runner.main in interactive mode: the commands of a    *)
(* session, setup_starwars among them, and the ways the session ends.       *)
(* LoadSpec is generate_swapi_sql.sanitize_sql_value on a string value,     *)
(* followed by the split of the INSERT statement that holds the result.     *)
(* PathSpec is SQLRunner.execute_file on a path of any kind, from           *)
(* _validate_file_path on.                                                  *)
(* MergeSpec is run_sql.main from the connect of line 113 on, on a file     *)
(* made of words and typed characters.                                      *)
(***************************************************************************)
EXTENDS Naturals, Integers, Sequences, FiniteSets

\* ---------------------------------------------------------------- bounds
\* texts over the whole alphabet have at most MaxLen characters
MaxLen == 5
\* texts over the characters that steer the scanner have at most MaxSteerLen
MaxSteerLen == 8
\* a list of statements to execute has at most MaxStatements statements
MaxStatements == 3
\* a query starts with at most MaxWords words, followed by at most
\* MaxQueryChars characters of the alphabet, or by at most MaxQuerySteer
\* characters that steer the scanner
MaxWords == 2
MaxQueryChars == 2
MaxQuerySteer == 6
\* a file that is typed has at most MaxFileLen characters
MaxFileLen == 3
\* a value is a word, or grows up to MaxValueLen characters
MaxValueLen == 4
\* a session has at most MaxCommands commands before it ends
MaxCommands == 3

\* ------------------------------------------------------------ characters
SQ == "'"
DQ == "\""
SEMI == ";"
DASH == "-"
NL == "\n"
SP == " "
LETTER == "a"
BSL == "\\"

Alphabet == {SQ, DQ, SEMI, DASH, NL, SP, LETTER}
SteerAlphabet == {SQ, SEMI, DASH, NL}
Quotes == {SQ, DQ}
Whitespace == {SP, NL}

Min(S) == CHOOSE x \in S : \A y \in S : x <= y
Max(S) == CHOOSE x \in S : \A y \in S : x >= y

\* ------------------------------------------------------------ str.strip()
NonSpace(s) == {k \in 1..Len(s) : s[k] \notin Whitespace}
FirstNonSpace(s) == IF NonSpace(s) = {} THEN Len(s) + 1 ELSE Min(NonSpace(s))
LastNonSpace(s) == IF NonSpace(s) = {} THEN 0 ELSE Max(NonSpace(s))
Strip(s) == SubSeq(s, FirstNonSpace(s), LastNonSpace(s))

\* ------------------------------------------------- sql_content.split('\n')
\* the lines of s from position from on, each as the range <<lo, hi>> of the
\* positions of s it holds (hi = lo - 1 for an empty line)
RECURSIVE SplitLines(_, _)
SplitLines(s, from) ==
    LET nls == {k \in from..Len(s) : s[k] = NL}
    IN  IF nls = {} THEN << <<from, Len(s)>> >>
        ELSE << <<from, Min(nls) - 1>> >> \o SplitLines(s, Min(nls) + 1)

\* ------------------------------------------------ the comment removal loop
Markers(line) == {k \in 1..(Len(line) - 1) : line[k] = DASH /\ line[k + 1] = DASH}
StartsWithMarker(s) == Len(s) >= 2 /\ s[1] = DASH /\ s[2] = DASH

\* KeptRange without the `continue`: a comment-only line is kept whole
KeptRange_KeepCommentLine(s, r) ==
    LET line == SubSeq(s, r[1], r[2])
    IN  IF StartsWithMarker(Strip(line)) THEN r
        ELSE IF Markers(line) # {} THEN <<r[1], r[1] + Min(Markers(line)) - 2>>
        ELSE r

\* the range of the input that one line contributes: nothing for a
\* comment-only line, the part before the first marker when the line holds
\* one, else the whole line
KeptRange(s, r) ==
    LET line == SubSeq(s, r[1], r[2])
    IN  IF StartsWithMarker(Strip(line)) THEN <<r[1], r[1] - 1>>
        ELSE IF Markers(line) # {} THEN <<r[1], r[1] + Min(Markers(line)) - 2>>
        ELSE r

\* clean_lines: the kept ranges that are not blank, in order
CleanLines(s) ==
    LET all == SplitLines(s, 1)
        kept == [k \in 1..Len(all) |-> KeptRange(s, all[k])]
        NonBlank(r) == Strip(SubSeq(s, r[1], r[2])) # <<>>
        \* a kept line with the position of the newline that ended it
        tagged == [k \in 1..Len(all) |-> <<kept[k][1], kept[k][2], all[k][2] + 1>>]
    IN  SelectSeq(tagged, NonBlank)

Range(lo, hi) == [k \in 1..(hi - lo + 1) |-> lo + k - 1]

\* '\n'.join(clean_lines), as positions of the input: the newline that joins
\* a line to the next one is the newline that ended that line
RECURSIVE JoinIdx(_)
JoinIdx(ls) ==
    IF ls = <<>> THEN <<>>
    ELSE IF Len(ls) = 1 THEN Range(ls[1][1], ls[1][2])
    ELSE Range(ls[1][1], ls[1][2]) \o <<ls[1][3]>> \o JoinIdx(Tail(ls))

CleanIdx(s) == JoinIdx(CleanLines(s))
CleanSql(s) == LET idx == CleanIdx(s) IN [k \in 1..Len(idx) |-> s[idx[k]]]

\* ------------------------------------------------------- the scanning loop
\* the scanner's locals at the head of the while loop; positions are
\* 1-based, so clean_sql[start:i] is SubSeq(s, start, i - 1); string_char
\* is "" for None
ScanInit ==
    [i |-> 1, start |-> 1, in_string |-> FALSE, string_char |-> "", spans |-> <<>>]

\* Emit without the .strip(): the slice is appended as it stands
Emit_NoStrip(s, spans, lo, hi) ==
    IF Strip(SubSeq(s, lo, hi)) # <<>> THEN Append(spans, <<lo, hi>>) ELSE spans

\* Emit without the `if stmt:` test: an empty slice is appended too
Emit_KeepEmpty(s, spans, lo, hi) ==
    LET piece == SubSeq(s, lo, hi)
    IN  Append(spans, <<lo + FirstNonSpace(piece) - 1, lo + LastNonSpace(piece) - 1>>)

\* clean_sql[lo..hi].strip() as a slice of s, appended when it is not empty
Emit(s, spans, lo, hi) ==
    LET piece == SubSeq(s, lo, hi)
    IN  IF Strip(piece) # <<>>
        THEN Append(spans, <<lo + FirstNonSpace(piece) - 1, lo + LastNonSpace(piece) - 1>>)
        ELSE spans

\* char is a quote and no string is open (lines 71-73)
OpenString(s, st) ==
    [st EXCEPT !.in_string = TRUE, !.string_char = s[st.i], !.i = st.i + 1]

\* CloseOrSkip without the doubled-quote test: every quote closes
CloseOrSkip_AlwaysClose(s, st) ==
    [st EXCEPT !.in_string = FALSE, !.string_char = "", !.i = st.i + 1]

\* char is the quote of the open string (lines 74-80): a doubled quote is
\* skipped, any other one closes the string
CloseOrSkip(s, st) ==
    IF st.i + 1 <= Len(s) /\ s[st.i + 1] = st.string_char
    THEN [st EXCEPT !.i = st.i + 2]
    ELSE [st EXCEPT !.in_string = FALSE, !.string_char = "", !.i = st.i + 1]

\* EndStatement with start = i: the next statement starts at the semicolon
EndStatement_StartAtSemicolon(s, st) ==
    [st EXCEPT !.spans = Emit(s, st.spans, st.start, st.i - 1),
               !.start = st.i, !.i = st.i + 1]

\* EndStatement that forgets to move start
EndStatement_KeepStart(s, st) ==
    [st EXCEPT !.spans = Emit(s, st.spans, st.start, st.i - 1), !.i = st.i + 1]

\* char is a semicolon outside a string (lines 83-87)
EndStatement(s, st) ==
    [st EXCEPT !.spans = Emit(s, st.spans, st.start, st.i - 1),
               !.start = st.i + 1, !.i = st.i + 1]

\* one iteration of the while loop (lines 69-89)
ScanStep(s, st) ==
    LET char == s[st.i]
    IN  IF char \in Quotes /\ ~st.in_string THEN OpenString(s, st)
        ELSE IF char = st.string_char /\ st.in_string THEN CloseOrSkip(s, st)
        ELSE IF char = SEMI /\ ~st.in_string THEN EndStatement(s, st)
        ELSE [st EXCEPT !.i = st.i + 1]

\* the states at the head of the loop, from st to the exit
RECURSIVE ScanTrace(_, _)
ScanTrace(s, st) ==
    IF st.i > Len(s) THEN <<st>> ELSE <<st>> \o ScanTrace(s, ScanStep(s, st))

\* the locals when the loop exits
ScanExit(s) == LET tr == ScanTrace(s, ScanInit) IN tr[Len(tr)]

\* Spans without lines 91-94: the text after the last semicolon is dropped
Spans_NoFinal(s) == ScanExit(s).spans

\* the final statement (lines 91-94)
Spans(s) == LET st == ScanExit(s) IN Emit(s, st.spans, st.start, Len(s))

Texts(s, sp) == [k \in 1..Len(sp) |-> SubSeq(s, sp[k][1], sp[k][2])]

\* the returned list
SplitSqlStatements(sql_content) ==
    LET clean == CleanSql(sql_content) IN Texts(clean, Spans(clean))

\* ------------------------------------------------------------- exceptions
\* line 76 reads clean_sql[i + 1] only behind the test i + 1 < len(clean_sql)
ReadsNext_Unguarded(s, st) == TRUE

ReadsNext(s, st) == st.i + 1 <= Len(s)

\* the scan reads a position that clean_sql does not have
IndexErrorIn(s) ==
    LET tr == ScanTrace(s, ScanInit)
    IN  \E k \in 1..(Len(tr) - 1) :
            /\ tr[k].in_string
            /\ s[tr[k].i] = tr[k].string_char
            /\ ReadsNext(s, tr[k])
            /\ tr[k].i + 1 > Len(s)

\* '--' in line
HasMarker(line) == \E k \in 1..(Len(line) - 1) : line[k] = DASH /\ line[k + 1] = DASH

\* line 55 calls line.index('--') only behind the test '--' in line; it
\* raises when the line holds no marker
ValueErrorIn(sql_content) ==
    LET all == SplitLines(sql_content, 1)
    IN  \E k \in 1..Len(all) :
            LET line == SubSeq(sql_content, all[k][1], all[k][2])
            IN  /\ ~StartsWithMarker(Strip(line))
                /\ HasMarker(line)
                /\ Markers(line) = {}

\* the exception that leaves _split_sql_statements for a string argument
\* (the TypeError of line 44 needs an argument that is not a string)
Raised(sql_content) ==
    IF ValueErrorIn(sql_content) THEN "ValueError"
    ELSE IF IndexErrorIn(CleanSql(sql_content)) THEN "IndexError"
    ELSE "none"

\* ------------------------------------------- run_sql.remove_sql_comments
\* the locals of the quote scan of one line (lines 22-24); cut is the
\* position at which the line is truncated, 0 while it is not
QuoteScanInit == [i |-> 1, in_quotes |-> FALSE, quote_char |-> "", cut |-> 0]

\* char is the quote of the open string (lines 30-38): after a backslash it
\* is passed over, a doubled quote is skipped, any other one closes
QuoteCloseOrSkip(line, st) ==
    IF st.i > 1 /\ line[st.i - 1] = BSL
    THEN [st EXCEPT !.i = st.i + 1]
    ELSE IF st.i + 1 <= Len(line) /\ line[st.i + 1] = st.quote_char
    THEN [st EXCEPT !.i = st.i + 2]
    ELSE [st EXCEPT !.in_quotes = FALSE, !.quote_char = "", !.i = st.i + 1]

\* one iteration of the while loop (lines 26-42)
QuoteScanStep(line, st) ==
    LET char == line[st.i]
    IN  IF char \in Quotes /\ ~st.in_quotes
        THEN [st EXCEPT !.in_quotes = TRUE, !.quote_char = char, !.i = st.i + 1]
        ELSE IF char = st.quote_char /\ st.in_quotes THEN QuoteCloseOrSkip(line, st)
        ELSE IF /\ ~st.in_quotes /\ char = DASH
                /\ st.i + 1 <= Len(line) /\ line[st.i + 1] = DASH
        THEN [st EXCEPT !.cut = st.i]
        ELSE [st EXCEPT !.i = st.i + 1]

\* the states at the head of the loop, up to the exit or the break
RECURSIVE QuoteScanTrace(_, _)
QuoteScanTrace(line, st) ==
    IF st.i > Len(line) \/ st.cut # 0 THEN <<st>>
    ELSE <<st>> \o QuoteScanTrace(line, QuoteScanStep(line, st))

\* the line after lines 17-42; <<>> for a comment-only line
WithoutComment(line) ==
    LET tr == QuoteScanTrace(line, QuoteScanInit)
        cut == tr[Len(tr)].cut
    IN  IF StartsWithMarker(Strip(line)) THEN <<>>
        ELSE IF HasMarker(line) /\ cut # 0 THEN SubSeq(line, 1, cut - 1)
        ELSE line

\* '\n'.join(lines)
RECURSIVE JoinLines(_)
JoinLines(ls) ==
    IF ls = <<>> THEN <<>>
    ELSE IF Len(ls) = 1 THEN ls[1]
    ELSE ls[1] \o <<NL>> \o JoinLines(Tail(ls))

RemoveSqlComments(sql_content) ==
    LET all == SplitLines(sql_content, 1)
        lines == [k \in 1..Len(all) |->
                     WithoutComment(SubSeq(sql_content, all[k][1], all[k][2]))]
        NonBlank(line) == Strip(line) # <<>>
    IN  JoinLines(SelectSeq(lines, NonBlank))

\* ---------------------------------------------- run_sql.execute_sql_file
\* clean_sql.split(';'): the positions at which the text is cut
SemicolonCuts(s) == {k \in 1..Len(s) : s[k] = SEMI}

\* the pieces of s from position from on
RECURSIVE SplitAtCuts(_, _, _)
SplitAtCuts(s, cuts, from) ==
    LET later == {k \in cuts : k >= from}
    IN  IF later = {} THEN <<SubSeq(s, from, Len(s))>>
        ELSE <<SubSeq(s, from, Min(later) - 1)>> \o SplitAtCuts(s, cuts, Min(later) + 1)

\* [stmt.strip() for stmt in clean_sql.split(';') if stmt.strip()]
FallbackStatements(s) ==
    LET pieces == SplitAtCuts(s, SemicolonCuts(s), 1)
        NonBlank(piece) == Strip(piece) # <<>>
        kept == SelectSeq(pieces, NonBlank)
    IN  [k \in 1..Len(kept) |-> Strip(kept[k])]

\* ---------------------------------------------------- the statement loops
\* str.upper() on the letters of the statements below
LowerCase == <<"a", "b", "c", "d", "e", "f", "g", "h", "i", "j", "k", "l", "m",
               "n", "o", "p", "q", "r", "s", "t", "u", "v", "w", "x", "y", "z">>
UpperCase == <<"A", "B", "C", "D", "E", "F", "G", "H", "I", "J", "K", "L", "M",
               "N", "O", "P", "Q", "R", "S", "T", "U", "V", "W", "X", "Y", "Z">>
UpperChar(c) ==
    IF \E k \in 1..26 : LowerCase[k] = c
    THEN UpperCase[CHOOSE k \in 1..26 : LowerCase[k] = c]
    ELSE c
Upper(s) == [k \in 1..Len(s) |-> UpperChar(s[k])]

\* str.startswith(prefix)
StartsWith(s, prefix) == Len(s) >= Len(prefix) /\ SubSeq(s, 1, Len(prefix)) = prefix

SELECT == <<"S", "E", "L", "E", "C", "T">>
DESCRIBE == <<"D", "E", "S", "C", "R", "I", "B", "E">>
SHOW == <<"S", "H", "O", "W">>

\* run_sql.py:54, the test of execute_statements
FetchesRowsInExecuteStatements(statement) ==
    \E prefix \in {SELECT, DESCRIBE, SHOW} : StartsWith(Upper(Strip(statement)), prefix)

\* sql_runner.py:151, the test of execute_file
FetchesRowsInExecuteFile(statement) == StartsWith(Strip(Upper(statement)), SELECT)

FetchesRows(program, statement) ==
    IF program = "execute_file" THEN FetchesRowsInExecuteFile(statement)
    ELSE FetchesRowsInExecuteStatements(statement)

\* the loop after an error: `continue` in execute_file, the end of the
\* except clause in execute_statements; here as a loop that stops
NextAfterError_Abort(n, i) == n + 1

NextAfterError(n, i) == i + 1

\* the statements the loops are run on
StatementPool ==
    { <<"S", "E", "L", "E", "C", "T", " ", "1">>,
      <<"s", "e", "l", "e", "c", "t", " ", "1">>,
      <<"S", "h", "o", "w", " ", "t">>,
      <<"d", "e", "s", "c", "r", "i", "b", "e", " ", "t">>,
      <<"I", "N", "S", "E", "R", "T">>,
      <<"S", "E", "L", "E", "C">> }

\* -------------------------------------------------------------- run_query
\* sub in s
Contains(s, sub) ==
    \E k \in 1..(Len(s) - Len(sub) + 1) : SubSeq(s, k, k + Len(sub) - 1) = sub

\* dangerous_keywords (line 289)
DangerousKeywords ==
    { <<"U", "N", "I", "O", "N">>,
      <<"I", "N", "T", "O">>,
      <<"O", "U", "T", "F", "I", "L", "E">>,
      <<"D", "U", "M", "P", "F", "I", "L", "E">>,
      <<"L", "O", "A", "D", "_", "F", "I", "L", "E">> }

\* line 290 with == in the place of in
HasDangerousKeyword_WholeQuery(query_upper) == query_upper \in DangerousKeywords

\* any(keyword in query_upper for keyword in dangerous_keywords)
HasDangerousKeyword(query_upper) ==
    \E keyword \in DangerousKeywords : Contains(query_upper, keyword)

\* what run_query does with a query (lines 267-313): "invalid" for the
\* TypeError and the ValueError of lines 268-272, the three rejections, or
\* "engine" when line 294 is reached
RunQueryVerdict(is_str, q) ==
    IF ~is_str THEN "invalid"
    ELSE IF Strip(q) = <<>> THEN "invalid"
    ELSE IF Raised(q) # "none" THEN "error"
    ELSE IF Len(SplitSqlStatements(q)) > 1 THEN "multiple"
    ELSE IF ~StartsWith(Strip(Upper(q)), SELECT) THEN "not_select"
    ELSE IF HasDangerousKeyword(Strip(Upper(q))) THEN "restricted"
    ELSE "engine"

\* the characters of a long query
QuerySteerAlphabet == {SQ, SEMI, DASH}

\* the words a query is made of
QueryWords ==
    { <<"S", "E", "L", "E", "C", "T">>,
      <<" ", "s", "e", "l", "e", "c", "t", " ", "u", "n">>,
      <<"I", "O", "N">> }

\* ------------------------------------ generate_swapi_sql.sanitize_sql_value
\* the values that stand for no value (line 20)
NullWords ==
    { <<"u", "n", "k", "n", "o", "w", "n">>,
      <<"n", "/", "a">>,
      <<"n", "o", "n", "e">> }

NULL == <<"N", "U", "L", "L">>

\* value.replace("'", "''")
RECURSIVE DoubleSingleQuotes(_)
DoubleSingleQuotes(v) ==
    IF v = <<>> THEN <<>>
    ELSE (IF Head(v) = SQ THEN <<SQ, SQ>> ELSE <<Head(v)>>) \o DoubleSingleQuotes(Tail(v))

\* sanitize_sql_value(v, c) for a string v and a column c that is not one
\* of the numeric columns (lines 20-21 and 41-42)
SanitizeSqlValue(v) ==
    IF v \in NullWords THEN NULL
    ELSE <<SQ>> \o DoubleSingleQuotes(v) \o <<SQ>>

\* "INSERT INTO t (c) VALUES (" + literal + ");": line 179 for the table t
\* and its one column c
InsertStatement(literal) ==
    <<"I", "N", "S", "E", "R", "T", " ", "I", "N", "T", "O", " ", "t", " ",
      "(", "c", ")", " ", "V", "A", "L", "U", "E", "S", " ", "(">>
    \o literal \o <<")", SEMI>>

\* ------------------------------------------------- _validate_file_path
\* what a path leads to: whether resolve() and the tests on the resolved
\* path return (an OSError, or a TypeError for a path that is no string,
\* otherwise), whether the resolved path lies in the working directory, and
\* what is there
Paths ==
    [resolves : BOOLEAN, inside : BOOLEAN, kind : {"missing", "directory", "file"}]

NoPath == [resolves |-> FALSE, inside |-> FALSE, kind |-> "missing"]

\* _validate_file_path without the test of lines 121-123
ValidateFilePath_NoFileTest(p) ==
    IF ~p.resolves THEN [returned |-> "None", raised |-> FALSE]
    ELSE IF ~p.inside THEN [returned |-> "None", raised |-> FALSE]
    ELSE IF p.kind = "missing" THEN [returned |-> "None", raised |-> FALSE]
    ELSE [returned |-> "path", raised |-> FALSE]

\* _validate_file_path (lines 101-129): what it returns, and whether an
\* exception leaves it; the except clause of line 127 catches what the
\* calls of lines 105-121 raise
ValidateFilePath(p) ==
    IF ~p.resolves THEN [returned |-> "None", raised |-> FALSE]
    ELSE IF ~p.inside THEN [returned |-> "None", raised |-> FALSE]
    ELSE IF p.kind = "missing" THEN [returned |-> "None", raised |-> FALSE]
    ELSE IF p.kind # "file" THEN [returned |-> "None", raised |-> FALSE]
    ELSE [returned |-> "path", raised |-> FALSE]

\* ------------------------------------------------------------ run_sql.main
MERGE == <<"M", "E", "R", "G", "E">>

\* line 122 without upper()
MergeDetected_CaseSensitive(sql_content) == Contains(sql_content, MERGE)

\* 'MERGE' in sql_content.upper() (line 122)
MergeDetected(sql_content) == Contains(Upper(sql_content), MERGE)

\* the words and the characters a file is made of
MergeWords == {MERGE, <<"m", "e", "r", "g", "e">>}
MergeAlphabet == {SQ, DASH, NL, SEMI, LETTER}

\* ------------------------------------------------------------ connections
\* the databases a session connects to (lines 14 and 193)
Databases == {"data/tpc-h.db", "data/starwars.db"}

\* duckdb.connect(db) and connection.close() on the open connections
Connect(open, db) == [open EXCEPT ![db] = @ + 1]
Close(open, db) == [open EXCEPT ![db] = IF @ > 0 THEN @ - 1 ELSE 0]

\* line 211 without the restoration
ConnAfterError_KeepCurrent(original_conn, bound, current) == current

\* self.conn after the except clause of setup_starwars (line 211); bound
\* says whether original_conn is among the locals
ConnAfterError(original_conn, bound, current) ==
    IF bound THEN original_conn ELSE current

\* ------------------------------------------------------------------ state
VARIABLES text, pc, clean_idx, clean_sql, spans, statements, raised
\* run_sql: the text without comments, the statements handed to
\* execute_statements, and the texts submitted to the engine, in order
VARIABLES no_comments, handed, engine

\* the statement loops: which loop runs, its list, the index of the next
\* statement, what the engine did with each submitted statement, and the
\* indices of the statements whose rows were fetched and whose error was
\* reported
VARIABLES program, x_statements, x_i, x_outcomes, x_fetched, x_reported

\* run_query: its argument (and whether it is a string at all), the
\* numbers of words and of characters it was made of, whether all typed
\* characters steer the scanner, what run_query did, whether an exception
\* left it, and self.conn
VARIABLES query, q_is_str, q_words, q_typed, q_steer, q_outcome, q_escaped, conn

\* execute_sql_file: the statements the engine executed successfully, in
\* order, and whether the whole-file execution raised
VARIABLES executed, file_failed

\* the session: how many connections to each database are open, the number
\* of commands so far, the connection and the origin (a command, or the
\* script of setup_starwars) of every statement submitted, and about the last call of setup_starwars: the way
\* it went, self.conn before it, what became of its temporary connection;
\* and whether a close() of the session raised
VARIABLES open_conns, n_commands, submitted, sw_path, conn_before, sw_temp,
          close_raised

\* the script generator: the value, whether it began with a word, and what
\* sanitize_sql_value made of it
VARIABLES value, v_word, sanitized

\* execute_file: what is at the path it is given, what _validate_file_path
\* returned and whether an exception left it, and the number of files read
VARIABLES path, validated, v_raised, files_read

\* run_sql.main: the numbers of words and of characters the file was made
\* of, whether con is an open connection, whether the file was read, and
\* the exit status (0 for a return)
VARIABLES m_words, m_typed, con_open, m_read, exit_status

split_vars == <<clean_idx, clean_sql, spans, statements, raised>>
query_vars == <<query, q_is_str, q_words, q_typed, q_steer, q_outcome, q_escaped, conn>>
exec_vars == <<program, x_statements, x_i, x_outcomes, x_fetched, x_reported>>
run_sql_vars == <<no_comments, handed>>
file_vars == <<executed, file_failed>>
conn_vars == <<open_conns, n_commands, submitted, sw_path, conn_before, sw_temp,
              close_raised>>
value_vars == <<value, v_word, sanitized>>
path_vars == <<path, validated, v_raised, files_read>>
merge_vars == <<m_words, m_typed, con_open, m_read, exit_status>>
session_vars == <<file_vars, conn_vars, value_vars, path_vars, merge_vars>>
vars == <<text, pc, split_vars, run_sql_vars, exec_vars, query_vars, session_vars, engine>>

Init ==
    /\ text = <<>>
    /\ pc = "input"
    /\ clean_idx = <<>>
    /\ clean_sql = <<>>
    /\ spans = <<>>
    /\ statements = <<>>
    /\ raised = "none"
    /\ no_comments = <<>>
    /\ handed = <<>>
    /\ engine = <<>>
    /\ program = "none"
    /\ x_statements = <<>>
    /\ x_i = 1
    /\ x_outcomes = <<>>
    /\ x_fetched = <<>>
    /\ x_reported = <<>>
    /\ query = <<>>
    /\ q_is_str = TRUE
    /\ q_words = 0
    /\ q_typed = 0
    /\ q_steer = TRUE
    /\ q_outcome = "none"
    /\ q_escaped = FALSE
    /\ conn = "data/tpc-h.db"
    /\ executed = <<>>
    /\ file_failed = FALSE
    /\ open_conns = [db \in Databases |-> IF db = "data/tpc-h.db" THEN 1 ELSE 0]
    /\ n_commands = 0
    /\ submitted = <<>>
    /\ sw_path = "none"
    /\ conn_before = "data/tpc-h.db"
    /\ sw_temp = "none"
    /\ close_raised = FALSE
    /\ value = <<>>
    /\ v_word = FALSE
    /\ sanitized = <<>>
    /\ path = NoPath
    /\ validated = "none"
    /\ v_raised = FALSE
    /\ files_read = 0
    /\ m_words = 0
    /\ m_typed = 0
    /\ con_open = FALSE
    /\ m_read = FALSE
    /\ exit_status = 0

\* the caller's text grows by one character
Type(c) ==
    /\ pc = "input"
    /\ \/ Len(text) < MaxLen
       \/ /\ Len(text) < MaxSteerLen
          /\ \A k \in 1..Len(text) : text[k] \in SteerAlphabet
          /\ c \in SteerAlphabet
    /\ text' = Append(text, c)
    /\ UNCHANGED <<pc, split_vars, run_sql_vars, exec_vars, query_vars, session_vars, engine>>

\* _split_sql_statements(text)
Split ==
    /\ pc = "input"
    /\ pc' = "done"
    /\ clean_idx' = CleanIdx(text)
    /\ clean_sql' = CleanSql(text)
    /\ spans' = Spans(CleanSql(text))
    /\ statements' = SplitSqlStatements(text)
    /\ raised' = Raised(text)
    /\ UNCHANGED <<text, run_sql_vars, exec_vars, query_vars, session_vars, engine>>

Next == (\E c \in Alphabet : Type(c)) \/ Split

Spec == Init /\ [][Next]_vars

\* the file's text grows by one character
TypeFile(c) ==
    /\ pc = "input"
    /\ Len(text) < MaxLen
    /\ text' = Append(text, c)
    /\ UNCHANGED <<pc, split_vars, run_sql_vars, exec_vars, query_vars, session_vars, engine>>

\* execute_sql_file(con, text): the engine accepts the whole text
ExecuteSqlFileOk ==
    /\ pc = "input"
    /\ pc' = "file_ok"
    /\ engine' = Append(engine, text)
    /\ UNCHANGED <<text, split_vars, run_sql_vars, exec_vars, query_vars, session_vars>>

\* execute_sql_file(con, text): the engine raises on the whole text; every
\* statement of the fallback is submitted by execute_statements, whose
\* except clause swallows the errors of the engine
ExecuteSqlFileFallback ==
    /\ pc = "input"
    /\ pc' = "fallback"
    /\ no_comments' = RemoveSqlComments(text)
    /\ handed' = FallbackStatements(RemoveSqlComments(text))
    /\ engine' = Append(engine, text) \o FallbackStatements(RemoveSqlComments(text))
    /\ UNCHANGED <<text, split_vars, exec_vars, query_vars, session_vars>>

RunSqlNext ==
    \/ \E c \in Alphabet \cup {BSL} : TypeFile(c)
    \/ ExecuteSqlFileOk
    \/ ExecuteSqlFileFallback

RunSqlSpec == Init /\ [][RunSqlNext]_vars

\* the list of statements grows by one statement
AddStatement(stmt) ==
    /\ pc = "input"
    /\ Len(x_statements) < MaxStatements
    /\ x_statements' = Append(x_statements, stmt)
    /\ UNCHANGED <<text, pc, split_vars, run_sql_vars, query_vars, session_vars, engine,
                   program, x_i, x_outcomes, x_fetched, x_reported>>

\* the loop of execute_file (sql_runner.py:146) or of execute_statements
\* (run_sql.py:51) is entered
StartLoop(p) ==
    /\ pc = "input"
    /\ pc' = "loop"
    /\ program' = p
    /\ UNCHANGED <<text, split_vars, run_sql_vars, query_vars, session_vars, engine,
                   x_statements, x_i, x_outcomes, x_fetched, x_reported>>

\* one iteration: the statement is submitted; the engine accepts it, and its
\* rows are fetched when the loop's test says so, or the engine raises, the
\* error is reported and the loop goes on
ExecuteStatement(outcome) ==
    /\ pc = "loop"
    /\ x_i <= Len(x_statements)
    /\ engine' = Append(engine, x_statements[x_i])
    /\ x_outcomes' = Append(x_outcomes, outcome)
    /\ IF outcome = "ok"
       THEN /\ x_fetched' = IF FetchesRows(program, x_statements[x_i])
                            THEN Append(x_fetched, x_i) ELSE x_fetched
            /\ x_reported' = x_reported
            /\ x_i' = x_i + 1
       ELSE /\ x_reported' = Append(x_reported, x_i)
            /\ x_fetched' = x_fetched
            /\ x_i' = NextAfterError(Len(x_statements), x_i)
    /\ UNCHANGED <<text, pc, split_vars, run_sql_vars, query_vars, session_vars, program, x_statements>>

\* the loop ends
EndLoop ==
    /\ pc = "loop"
    /\ x_i > Len(x_statements)
    /\ pc' = "loop_done"
    /\ UNCHANGED <<text, split_vars, run_sql_vars, exec_vars, query_vars, session_vars, engine>>

ExecNext ==
    \/ \E stmt \in StatementPool : AddStatement(stmt)
    \/ \E p \in {"execute_file", "execute_statements"} : StartLoop(p)
    \/ \E outcome \in {"ok", "error"} : ExecuteStatement(outcome)
    \/ EndLoop

ExecSpec == Init /\ [][ExecNext]_vars

\* the query starts with one more word
PasteWord(w) ==
    /\ pc = "input"
    /\ q_is_str
    /\ q_typed = 0
    /\ q_words < MaxWords
    /\ query' = query \o w
    /\ q_words' = q_words + 1
    /\ UNCHANGED <<text, pc, split_vars, run_sql_vars, exec_vars, session_vars, engine,
                   q_is_str, q_typed, q_steer, q_outcome, q_escaped, conn>>

\* the query grows by one character
TypeQuery(c) ==
    /\ pc = "input"
    /\ q_is_str
    /\ \/ q_typed < MaxQueryChars
       \/ q_typed < MaxQuerySteer /\ q_steer /\ c \in QuerySteerAlphabet
    /\ query' = Append(query, c)
    /\ q_typed' = q_typed + 1
    /\ q_steer' = (q_steer /\ c \in QuerySteerAlphabet)
    /\ UNCHANGED <<text, pc, split_vars, run_sql_vars, exec_vars, session_vars, engine,
                   q_is_str, q_words, q_outcome, q_escaped, conn>>

\* the caller passes something that is not a string
PassNonString ==
    /\ pc = "input"
    /\ q_is_str
    /\ query = <<>>
    /\ q_is_str' = FALSE
    /\ UNCHANGED <<text, pc, split_vars, run_sql_vars, exec_vars, session_vars, engine,
                   query, q_words, q_typed, q_steer, q_outcome, q_escaped, conn>>

\* run_query(query); accepted says what the engine does if it is called: its
\* exception is caught by line 312
RunQuery(accepted) ==
    /\ pc = "input"
    /\ pc' = "query_done"
    /\ LET verdict == RunQueryVerdict(q_is_str, query)
       IN  /\ engine' = IF verdict = "engine" THEN Append(engine, query) ELSE engine
           /\ q_outcome' = IF verdict # "engine" THEN verdict
                           ELSE IF accepted THEN "executed" ELSE "engine_error"
    /\ q_escaped' = FALSE
    /\ UNCHANGED <<text, split_vars, run_sql_vars, exec_vars, session_vars,
                   query, q_is_str, q_words, q_typed, q_steer, conn>>

QueryNext ==
    \/ \E w \in QueryWords : PasteWord(w)
    \/ \E c \in Alphabet : TypeQuery(c)
    \/ PassNonString
    \/ \E accepted \in BOOLEAN : RunQuery(accepted)

QuerySpec == Init /\ [][QueryNext]_vars

\* the file grows by one statement and its terminator
WriteStatement(stmt) ==
    /\ pc = "input"
    /\ Len(x_statements) < MaxStatements
    /\ text' = text \o stmt \o <<SEMI, NL>>
    /\ x_statements' = Append(x_statements, stmt)
    /\ UNCHANGED <<pc, split_vars, run_sql_vars, query_vars, session_vars, engine,
                   program, x_i, x_outcomes, x_fetched, x_reported>>

\* the statements of ss whose place is not in rejected
Accepted(ss, rejected) ==
    LET Keep(k) == k \notin rejected
        places == SelectSeq([k \in 1..Len(ss) |-> k], Keep)
    IN  [k \in 1..Len(places) |-> ss[places[k]]]

\* execute_sql_file(con, text). con.execute(text) executes the statements
\* of the text in order; first_error is the place of the first one the
\* engine rejects (0: none), the ones before it have been executed. After
\* an error the fallback (lines 73-82) submits every statement it splits
\* off the text; rejected are the places of those the engine rejects, whose
\* errors execute_statements swallows (line 63).
ExecuteSqlFile(first_error, rejected) ==
    /\ pc = "input"
    /\ first_error \in 0..Len(x_statements)
    /\ pc' = "file_done"
    /\ file_failed' = (first_error # 0)
    /\ IF first_error = 0
       THEN /\ rejected = {}
            /\ engine' = Append(engine, text)
            /\ executed' = executed \o x_statements
            /\ UNCHANGED run_sql_vars
       ELSE LET cleaned == RemoveSqlComments(text)
                fallback == FallbackStatements(cleaned)
            IN  /\ rejected \subseteq 1..Len(fallback)
                /\ no_comments' = cleaned
                /\ handed' = fallback
                /\ engine' = Append(engine, text) \o fallback
                /\ executed' = executed \o SubSeq(x_statements, 1, first_error - 1)
                                        \o Accepted(fallback, rejected)
    /\ UNCHANGED <<text, split_vars, exec_vars, query_vars, conn_vars, value_vars, path_vars,
                   merge_vars>>

FileNext ==
    \/ \E stmt \in StatementPool : WriteStatement(stmt)
    \/ \E first_error \in 0..MaxStatements, rejected \in SUBSET (1..MaxStatements) :
           ExecuteSqlFile(first_error, rejected)

FileSpec == Init /\ [][FileNext]_vars

\* runner.close() (lines 427-433): self.conn is closed; an exception of
\* close() is printed, and the connection is left open or closed
RunnerClose(open, close_result) ==
    IF close_result = "raised_open" THEN open ELSE Close(open, conn)

\* a command other than starwars; its statements go to self.conn. A
\* KeyboardInterrupt while it runs leaves the loop (line 421), and main
\* closes the runner (lines 466-468)
Command(n, interrupted, close_result) ==
    /\ pc = "input"
    /\ n_commands < MaxCommands
    /\ n_commands' = n_commands + 1
    /\ submitted' = submitted \o [k \in 1..n |-> <<conn, "command">>]
    /\ IF interrupted
       THEN /\ pc' = "main_done"
            /\ open_conns' = RunnerClose(open_conns, close_result)
            /\ close_raised' = (close_raised \/ close_result # "closed")
       ELSE /\ close_result = "closed"
            /\ UNCHANGED <<pc, open_conns, close_raised>>
    /\ UNCHANGED <<text, split_vars, run_sql_vars, exec_vars, query_vars, file_vars, value_vars, path_vars,
                   merge_vars,
                   engine, sw_path, conn_before, sw_temp>>

\* the command starwars: setup_starwars (lines 184-211). way is the path
\* taken: "connect_raised" (mkdir or connect), "missing" (execute_file
\* finds no script), "executed" (the n statements of the script are
\* submitted, accepted or not), "interrupted" (a KeyboardInterrupt during
\* the script, which no except clause of setup_starwars catches: the loop
\* of interactive_mode is left and main closes the runner); close_result is
\* what the close() that is reached does
SetupStarwars(way, n, close_result) ==
    /\ pc = "input"
    /\ n_commands < MaxCommands
    /\ n_commands' = n_commands + 1
    /\ conn_before' = conn
    /\ LET starwars_conn == "data/starwars.db"
           original_conn == conn
           connected == Connect(open_conns, starwars_conn)
       IN  CASE way = "connect_raised" ->
                    /\ n = 0 /\ close_result = "closed"
                    /\ conn' = ConnAfterError(original_conn, FALSE, conn)
                    /\ sw_path' = way
                    /\ sw_temp' = "none"
                    /\ UNCHANGED <<pc, open_conns, submitted, close_raised>>
             [] way = "interrupted" ->
                    /\ n > 0
                    /\ submitted' = submitted \o [k \in 1..n |-> <<starwars_conn, "script">>]
                    /\ conn' = starwars_conn
                    /\ sw_path' = way
                    /\ pc' = "main_done"
                    /\ open_conns' = IF close_result = "raised_open" THEN connected
                                     ELSE Close(connected, starwars_conn)
                    /\ sw_temp' = IF close_result = "raised_open" THEN "open" ELSE "closed"
                    /\ close_raised' = (close_raised \/ close_result # "closed")
             [] way \in {"missing", "executed"} ->
                    /\ (way = "missing") <=> (n = 0)
                    /\ submitted' = submitted \o [k \in 1..n |-> <<starwars_conn, "script">>]
                    /\ sw_path' = IF close_result = "closed" THEN way ELSE "close_raised"
                    /\ sw_temp' = IF close_result = "raised_open" THEN "open" ELSE "closed"
                    /\ open_conns' = IF close_result = "raised_open" THEN connected
                                     ELSE Close(connected, starwars_conn)
                    /\ conn' = IF close_result = "closed" THEN original_conn
                               ELSE ConnAfterError(original_conn, TRUE, starwars_conn)
                    /\ close_raised' = (close_raised \/ close_result # "closed")
                    /\ UNCHANGED pc
    /\ UNCHANGED <<text, split_vars, run_sql_vars, exec_vars, file_vars, value_vars, path_vars,
                   merge_vars,
                   engine,
                   query, q_is_str, q_words, q_typed, q_steer, q_outcome, q_escaped>>

\* the session ends at the prompt (quit, exit, end of input, or a
\* KeyboardInterrupt, lines 390-425) and main closes the runner
EndSession(close_result) ==
    /\ pc = "input"
    /\ pc' = "main_done"
    /\ open_conns' = RunnerClose(open_conns, close_result)
    /\ close_raised' = (close_raised \/ close_result # "closed")
    /\ UNCHANGED <<text, split_vars, run_sql_vars, exec_vars, query_vars, file_vars, value_vars, path_vars,
                   merge_vars,
                   engine, n_commands, submitted, sw_path, conn_before, sw_temp>>

CloseResults == {"closed", "raised_open", "raised_closed"}

SessionNext ==
    \/ \E n \in 0..MaxStatements, interrupted \in BOOLEAN, close_result \in CloseResults :
           Command(n, interrupted, close_result)
    \/ \E way \in {"connect_raised", "missing", "executed", "interrupted"},
          n \in 0..MaxStatements, close_result \in CloseResults :
           SetupStarwars(way, n, close_result)
    \/ \E close_result \in CloseResults : EndSession(close_result)

SessionSpec == Init /\ [][SessionNext]_vars

\* the value begins with a word
PasteValueWord(w) ==
    /\ pc = "input"
    /\ value = <<>>
    /\ ~v_word
    /\ value' = w
    /\ v_word' = TRUE
    /\ UNCHANGED <<text, pc, split_vars, run_sql_vars, exec_vars, query_vars,
                   file_vars, conn_vars, path_vars, merge_vars, engine, sanitized>>

\* the value grows by one character
TypeValue(c) ==
    /\ pc = "input"
    /\ Len(value) < MaxValueLen
    /\ value' = Append(value, c)
    /\ UNCHANGED <<text, pc, split_vars, run_sql_vars, exec_vars, query_vars,
                   file_vars, conn_vars, path_vars, merge_vars, engine, v_word,
                   sanitized>>

\* the script holds the INSERT statement of the value (line 179) and
\* execute_file splits the script (sql_runner.py:144)
GenerateAndSplit ==
    /\ pc = "input"
    /\ pc' = "loaded"
    /\ sanitized' = SanitizeSqlValue(value)
    /\ LET script == InsertStatement(SanitizeSqlValue(value))
       IN  /\ text' = script
           /\ raised' = Raised(script)
           /\ clean_idx' = CleanIdx(script)
           /\ clean_sql' = CleanSql(script)
           /\ spans' = Spans(CleanSql(script))
           /\ statements' = SplitSqlStatements(script)
    /\ UNCHANGED <<run_sql_vars, exec_vars, query_vars, file_vars, conn_vars, path_vars,
                   merge_vars, engine, value, v_word>>

LoadNext ==
    \/ \E w \in NullWords \cup {<<"n", "o", "n">>} : PasteValueWord(w)
    \/ \E c \in Alphabet : TypeValue(c)
    \/ GenerateAndSplit

LoadSpec == Init /\ [][LoadNext]_vars

\* the text of the file grows by one character
TypeContent(c) ==
    /\ pc = "input"
    /\ Len(text) < MaxFileLen
    /\ text' = Append(text, c)
    /\ UNCHANGED <<pc, split_vars, run_sql_vars, exec_vars, query_vars, session_vars,
                   engine>>

\* execute_file(p) (lines 131-172); text is what the file at p holds, if
\* there is one, and readable says whether it can be opened and read. A
\* path that is not validated ends the call (lines 133-135); an error of
\* open or read is caught by line 171; every statement of the file is
\* submitted, whatever the engine answers (lines 146-169)
ExecuteFile(p, readable) ==
    /\ pc = "input"
    /\ pc' = "file_run"
    /\ path' = p
    /\ validated' = ValidateFilePath(p).returned
    /\ v_raised' = ValidateFilePath(p).raised
    /\ IF ValidateFilePath(p).returned = "None"
       THEN /\ readable
            /\ UNCHANGED <<files_read, split_vars, engine>>
       ELSE IF ~readable \/ p.kind # "file"
       THEN UNCHANGED <<files_read, split_vars, engine>>
       ELSE /\ files_read' = files_read + 1
            /\ raised' = Raised(text)
            /\ clean_idx' = CleanIdx(text)
            /\ clean_sql' = CleanSql(text)
            /\ spans' = Spans(CleanSql(text))
            /\ statements' = SplitSqlStatements(text)
            /\ engine' = engine \o SplitSqlStatements(text)
    /\ UNCHANGED <<text, run_sql_vars, exec_vars, query_vars, file_vars, conn_vars,
                   value_vars, merge_vars>>

PathNext ==
    \/ \E c \in Alphabet : TypeContent(c)
    \/ \E p \in Paths, readable \in BOOLEAN : ExecuteFile(p, readable)

PathSpec == Init /\ [][PathNext]_vars

\* the file grows by one word
PasteMergeWord(w) ==
    /\ pc = "input"
    /\ m_words < MaxWords
    /\ text' = text \o w
    /\ m_words' = m_words + 1
    /\ UNCHANGED <<pc, split_vars, run_sql_vars, exec_vars, query_vars, file_vars,
                   conn_vars, value_vars, path_vars, engine,
                   m_typed, con_open, m_read, exit_status>>

\* the file grows by one character
TypeMergeFile(c) ==
    /\ pc = "input"
    /\ m_typed < MaxFileLen
    /\ text' = Append(text, c)
    /\ m_typed' = m_typed + 1
    /\ UNCHANGED <<pc, split_vars, run_sql_vars, exec_vars, query_vars, file_vars,
                   conn_vars, value_vars, path_vars, engine,
                   m_words, con_open, m_read, exit_status>>

\* main, lines 109-140, on a path that passed lines 91-107. connects and
\* readable say whether duckdb.connect and the read of the file return;
\* their exceptions end in sys.exit(1) (lines 132-137). A file with MERGE
\* in it ends the call at line 126. Else execute_sql_file submits the text
\* and, when the engine raises (whole_ok false), the statements of the
\* fallback. The finally clause closes con if it was opened.
RunSqlMain(connects, readable, whole_ok) ==
    /\ pc = "input"
    /\ pc' = "main_returned"
    /\ con_open' = FALSE
    /\ m_read' = (connects /\ readable)
    /\ exit_status' = IF connects /\ readable THEN 0 ELSE 1
    /\ IF ~(connects /\ readable)
       THEN /\ whole_ok
            /\ (~connects => readable)
            /\ UNCHANGED <<engine, run_sql_vars>>
       ELSE IF MergeDetected(text)
       THEN /\ whole_ok
            /\ UNCHANGED <<engine, run_sql_vars>>
       ELSE IF whole_ok
       THEN /\ engine' = Append(engine, text)
            /\ UNCHANGED run_sql_vars
       ELSE /\ no_comments' = RemoveSqlComments(text)
            /\ handed' = FallbackStatements(RemoveSqlComments(text))
            /\ engine' = Append(engine, text) \o FallbackStatements(RemoveSqlComments(text))
    /\ UNCHANGED <<text, split_vars, exec_vars, query_vars, file_vars, conn_vars,
                   value_vars, path_vars, m_words, m_typed>>

MergeNext ==
    \/ \E w \in MergeWords : PasteMergeWord(w)
    \/ \E c \in MergeAlphabet : TypeMergeFile(c)
    \/ \E connects \in BOOLEAN, readable \in BOOLEAN, whole_ok \in BOOLEAN :
           RunSqlMain(connects, readable, whole_ok)

MergeSpec == Init /\ [][MergeNext]_vars

TypeOK ==
    /\ pc \in {"input", "done", "file_ok", "fallback", "loop", "loop_done",
               "query_done", "file_done",
               "main_done", "loaded",
               "file_run", "main_returned"}
    /\ (x_statements = <<>> /\ pc # "loaded" /\ m_words = 0) =>
           \A k \in 1..Len(text) : text[k] \in Alphabet \cup {BSL}
    /\ Len(statements) = Len(spans)

\* ------------------------------------------- what the input text means
\* The lexical class of every character of a text, read as SQL: "str" for
\* a character of a string literal that is closed (its quotes included, a
\* doubled quote being content), "open" for a character of a literal that
\* is never closed, "comment" for the text from a marker outside any literal
\* to the end of its line, "code" for everything else.
RECURSIVE Lex(_, _, _, _)
Lex(s, i, m, acc) ==
    IF i > Len(s)
    THEN IF m.mode = "str"
         THEN [k \in 1..Len(acc) |-> IF k >= m.open THEN "open" ELSE acc[k]]
         ELSE acc
    ELSE IF m.mode = "code"
    THEN IF s[i] \in Quotes
         THEN Lex(s, i + 1, [mode |-> "str", q |-> s[i], open |-> i], Append(acc, "str"))
         ELSE IF s[i] = DASH /\ i < Len(s) /\ s[i + 1] = DASH
         THEN Lex(s, i + 2, [m EXCEPT !.mode = "comment"], acc \o <<"comment", "comment">>)
         ELSE Lex(s, i + 1, m, Append(acc, "code"))
    ELSE IF m.mode = "str"
    THEN IF s[i] = m.q
         THEN IF i < Len(s) /\ s[i + 1] = m.q
              THEN Lex(s, i + 2, m, acc \o <<"str", "str">>)
              ELSE Lex(s, i + 1, [m EXCEPT !.mode = "code"], Append(acc, "str"))
         ELSE Lex(s, i + 1, m, Append(acc, "str"))
    ELSE IF s[i] = NL
         THEN Lex(s, i + 1, [m EXCEPT !.mode = "code"], Append(acc, "code"))
         ELSE Lex(s, i + 1, m, Append(acc, "comment"))

Class(s) == Lex(s, 1, [mode |-> "code", q |-> "", open |-> 0], <<>>)

\* the positions of clean_sql at which the scan ended a statement
Cuts(s) ==
    LET tr == ScanTrace(s, ScanInit)
    IN  {tr[k].i : k \in {j \in 1..(Len(tr) - 1) : tr[j + 1].start # tr[j].start}}

\* the positions of clean_sql, and of the input, that some statement holds
EmittedClean == UNION {spans[k][1]..spans[k][2] : k \in 1..Len(spans)}
EmittedIdx == {clean_idx[j] : j \in EmittedClean}

Done == pc = "done"

\* ----------------------------------------------------------------- claims

\* C1: no statement ends at a semicolon that lies inside a (closed) string
\* literal of the input.
C1_NoSplitInsideLiteral ==
    Done => \A c \in Cuts(clean_sql) : Class(text)[clean_idx[c]] # "str"

\* C2: a marker inside a string literal of the input is data: both of its
\* dashes are in an emitted statement.
C2_MarkerInLiteralKept ==
    Done => \A k \in 1..(Len(text) - 1) :
                (/\ text[k] = DASH /\ text[k + 1] = DASH
                 /\ Class(text)[k] = "str" /\ Class(text)[k + 1] = "str")
                => {k, k + 1} \subseteq EmittedIdx

\* C3: every character of the input that is inside a (closed) string
\* literal, or is code other than a semicolon or whitespace, is in an emitted
\* statement.
C3_NoContentLost ==
    Done => \A k \in 1..Len(text) :
                (\/ Class(text)[k] = "str"
                 \/ Class(text)[k] = "code" /\ text[k] \notin Whitespace \cup {SEMI})
                => k \in EmittedIdx

\* C4: a text with no semicolon and no marker yields exactly its trimmed
\* self, or nothing when it is blank.
C4_SingleStatementIsTrimmedInput ==
    (Done /\ Markers(text) = {} /\ \A k \in 1..Len(text) : text[k] # SEMI)
    => statements = IF Strip(text) = <<>> THEN <<>> ELSE <<Strip(text)>>

EndsWithSemicolon(stmt) == stmt # <<>> /\ stmt[Len(stmt)] = SEMI

\* C5 as claimed: no emitted statement ends with a semicolon.
C5_NoTrailingSemicolon ==
    Done => \A k \in 1..Len(statements) : ~EndsWithSemicolon(statements[k])

\* C5 as amended: the semicolon that ends a statement is in no emitted
\* statement, and a statement ends with a semicolon only when it is the last
\* one and the scan of the comment-stripped text ended inside a string
\* literal that was never closed.
C5_TerminatorExcluded ==
    Done => /\ \A c \in Cuts(clean_sql) : c \notin EmittedClean
            /\ \A k \in 1..Len(statements) :
                   EndsWithSemicolon(statements[k])
                   => k = Len(statements) /\ ScanExit(clean_sql).in_string

C5_Witness ==
    /\ Done
    /\ Len(statements) >= 2
    /\ Cuts(clean_sql) # {}
    /\ EndsWithSemicolon(statements[Len(statements)])

\* ";\n".join(stmts)
RECURSIVE Rejoin(_)
Rejoin(stmts) ==
    IF stmts = <<>> THEN <<>>
    ELSE IF Len(stmts) = 1 THEN stmts[1]
    ELSE stmts[1] \o <<SEMI, NL>> \o Rejoin(Tail(stmts))

\* C6: splitting the statements joined with ";\n" returns the statements.
C6_Idempotent ==
    Done => SplitSqlStatements(Rejoin(statements)) = statements

\* a text with a comment of which two statements, one with a quote, remain
C6_Witness ==
    /\ Done
    /\ Len(statements) >= 2
    /\ Rejoin(statements) # text
    /\ Markers(text) # {}
    /\ \E k \in 1..Len(statements) : \E j \in 1..Len(statements[k]) :
           statements[k][j] \in Quotes

C8_StatementsTrimmedNonEmpty ==
    Done => \A k \in 1..Len(statements) :
                /\ statements[k] # <<>>
                /\ statements[k][1] \notin Whitespace
                /\ statements[k][Len(statements[k])] \notin Whitespace
                /\ Markers(statements[k]) = {}

\* a text with a comment and leading whitespace of which one segment is
\* emitted and another one dropped
C8_Witness ==
    /\ Done
    /\ Len(statements) >= 1
    /\ Cardinality(Cuts(clean_sql)) + 1 > Len(statements)
    /\ Markers(text) # {}
    /\ text[1] \in Whitespace

\* C9: the statements are disjoint slices of clean_sql in increasing order,
\* and clean_sql holds characters of the input in the input's order.
C9_InputOrder ==
    Done => /\ \A k \in 1..Len(spans) :
                   /\ 1 <= spans[k][1] /\ spans[k][1] <= spans[k][2]
                   /\ spans[k][2] <= Len(clean_sql)
                   /\ statements[k] = SubSeq(clean_sql, spans[k][1], spans[k][2])
            /\ \A k \in 1..(Len(spans) - 1) : spans[k][2] < spans[k + 1][1]
            /\ \A j \in 1..(Len(clean_idx) - 1) : clean_idx[j] < clean_idx[j + 1]
            /\ \A j \in 1..Len(clean_idx) :
                   clean_idx[j] \in 1..Len(text) /\ clean_sql[j] = text[clean_idx[j]]

C9_Witness ==
    /\ Done
    /\ Len(statements) >= 3
    /\ statements[1] # statements[2]

SameLine(j, k) == \A m \in j..k : text[m] # NL

\* C10: the text from a marker outside any string literal to the end of its
\* line is in no emitted statement, the statement text before that marker on
\* its line is kept, and a line whose trimmed content begins with a marker
\* contributes nothing.
C10_CommentRemovedPrefixKept ==
    Done =>
    /\ \A k \in 1..Len(text) : Class(text)[k] = "comment" => k \notin EmittedIdx
    /\ \A k \in 1..Len(text) : \A j \in 1..(k - 1) :
           (/\ Class(text)[k] = "comment"
            /\ SameLine(j, k)
            /\ \/ Class(text)[j] = "str"
               \/ Class(text)[j] = "code" /\ text[j] \notin Whitespace \cup {SEMI})
           => j \in EmittedIdx
    /\ \A n \in 1..Len(SplitLines(text, 1)) :
           LET r == SplitLines(text, 1)[n]
           IN  StartsWithMarker(Strip(SubSeq(text, r[1], r[2])))
               => \A j \in 1..Len(clean_idx) : clean_idx[j] \notin r[1]..r[2]

\* C11: when a string literal of the input is never closed, no exception is
\* raised, no statement ends at a semicolon after its opening quote, and the
\* last statement ends with the trimmed rest of the input from that quote on.
C11_UnterminatedLiteral ==
    Done =>
    LET open == {k \in 1..Len(text) : Class(text)[k] = "open"}
        rest == Strip(SubSeq(text, Min(open), Len(text)))
        last == statements[Len(statements)]
    IN  open # {} =>
        /\ raised = "none"
        /\ \A c \in Cuts(clean_sql) : clean_idx[c] \notin open
        /\ statements # <<>>
        /\ Len(last) >= Len(rest)
        /\ SubSeq(last, Len(last) - Len(rest) + 1, Len(last)) = rest

\* C15: for every text the method returns a list of statements and raises
\* no exception.
C15_Total ==
    Done => /\ raised = "none"
            /\ \A k \in 1..Len(statements) : \A j \in 1..Len(statements[k]) :
                   statements[k][j] \in Alphabet

\* the scan meets the quote of the open string at the last position of a
\* clean_sql from which a comment was removed
C15_Witness ==
    /\ Done
    /\ Markers(text) # {}
    /\ \E k \in 1..(Len(ScanTrace(clean_sql, ScanInit)) - 1) :
           LET st == ScanTrace(clean_sql, ScanInit)[k]
           IN  /\ st.in_string
               /\ clean_sql[st.i] = st.string_char
               /\ st.i = Len(clean_sql)

\* the text of clean_sql after its last statement-ending semicolon
AfterLastCut ==
    LET last == IF Cuts(clean_sql) = {} THEN 0 ELSE Max(Cuts(clean_sql))
    IN  SubSeq(clean_sql, last + 1, Len(clean_sql))

\* C16: content left after the last statement-ending semicolon of the
\* comment-stripped text is emitted, trimmed, as the last statement.
C16_FinalStatementEmitted ==
    (Done /\ Strip(AfterLastCut) # <<>>)
    => statements # <<>> /\ statements[Len(statements)] = Strip(AfterLastCut)

C16_Witness ==
    /\ Done
    /\ Cuts(clean_sql) # {}
    /\ Strip(AfterLastCut) # <<>>
    /\ Strip(AfterLastCut) # AfterLastCut
    /\ Len(statements) >= 2

\* every line of the text is a comment line
OnlyCommentLines(s) ==
    \A n \in 1..Len(SplitLines(s, 1)) :
        LET r == SplitLines(s, 1)[n]
        IN  StartsWithMarker(Strip(SubSeq(s, r[1], r[2])))

\* C17: a text of comment lines only yields no statement.
C17_CommentsOnly ==
    (Done /\ OnlyCommentLines(text)) => statements = <<>>

\* two comment lines, one of them holding a semicolon or a quote
C17_Witness ==
    /\ Done
    /\ OnlyCommentLines(text)
    /\ Len(SplitLines(text, 1)) >= 2
    /\ \E k \in 1..Len(text) : text[k] \in Quotes \cup {SEMI}

\* a quote that is met inside the string it can close and is not the first
\* of a doubled pair
ClosingQuote(s, i, in_string, q) ==
    in_string /\ s[i] = q /\ ~(i < Len(s) /\ s[i + 1] = q)

\* C12: in both quote scans (the statement scan, and the scan of every line
\* that remove_sql_comments scans) a quote of the open string that is not
\* doubled closes the string, whatever precedes it, a backslash included.
C12_BackslashDoesNotEscape ==
    pc # "input" =>
    /\ LET clean == CleanSql(text)
           tr == ScanTrace(clean, ScanInit)
       IN  \A k \in 1..(Len(tr) - 1) :
               ClosingQuote(clean, tr[k].i, tr[k].in_string, tr[k].string_char)
               => ~tr[k + 1].in_string
    /\ \A n \in 1..Len(SplitLines(text, 1)) :
           LET r == SplitLines(text, 1)[n]
               line == SubSeq(text, r[1], r[2])
               tr == QuoteScanTrace(line, QuoteScanInit)
           IN  (~StartsWithMarker(Strip(line)) /\ HasMarker(line)) =>
               \A k \in 1..(Len(tr) - 1) :
                   ClosingQuote(line, tr[k].i, tr[k].in_quotes, tr[k].quote_char)
                   => ~tr[k + 1].in_quotes

\* C20: the fallback of execute_sql_file never cuts the text at a semicolon
\* that lies inside a (closed) string literal.
C20_FallbackNoSplitInsideLiteral ==
    pc = "fallback" =>
    \A k \in SemicolonCuts(no_comments) : Class(no_comments)[k] # "str"

\* C13: when a statement loop ends, every statement of the list has been
\* submitted exactly once, in order, whichever of them the engine rejected,
\* and exactly the rejected ones were reported.
C13_PartialFailureTolerant ==
    /\ pc \in {"loop", "loop_done"} =>
           /\ engine = SubSeq(x_statements, 1, Len(engine))
           /\ Len(x_outcomes) = Len(engine)
    /\ pc = "loop_done" =>
           /\ engine = x_statements
           /\ \A k \in 1..Len(x_statements) :
                  x_outcomes[k] = "error" <=> \E j \in 1..Len(x_reported) : x_reported[j] = k

\* a loop that ended after the engine rejected a statement that was not the
\* last one
C13_Witness ==
    /\ pc = "loop_done"
    /\ Len(x_statements) >= 3
    /\ x_outcomes[1] = "error"
    /\ x_outcomes[2] = "ok"
    /\ x_outcomes[3] = "error"

\* C14: in both loops the rows of an accepted statement are fetched exactly
\* when the statement, trimmed and upper-cased, begins with SELECT, DESCRIBE
\* or SHOW.
C14_RowProducing ==
    pc \in {"loop", "loop_done"} =>
    \A k \in 1..Len(x_outcomes) :
        x_outcomes[k] = "ok" =>
        ((\E j \in 1..Len(x_fetched) : x_fetched[j] = k)
         <=> \E prefix \in {SELECT, DESCRIBE, SHOW} :
                 StartsWith(Upper(Strip(x_statements[k])), prefix))

\* the query holds a second statement: a semicolon outside any literal and
\* comment, and after it text that is neither comment, whitespace nor a
\* further statement-ending semicolon
HoldsSecondStatement(q) ==
    \E k \in 1..Len(q) :
        /\ q[k] = SEMI
        /\ Class(q)[k] = "code"
        /\ \E j \in (k + 1)..Len(q) :
               \/ Class(q)[j] \in {"str", "open"}
               \/ Class(q)[j] = "code" /\ q[j] \notin Whitespace \cup {SEMI}

\* C18: run_query never submits a query that holds a second statement.
C18_SingleStatementOnly ==
    pc = "query_done" =>
    \A k \in 1..Len(engine) : ~HoldsSecondStatement(engine[k])

\* C19: run_query calls the engine only for a non-blank string whose
\* trimmed upper-cased text begins with SELECT and holds no restricted
\* keyword, at most once and with the query itself; no exception leaves
\* run_query and self.conn is unchanged.
C19_EngineOnlyForPlainSelect ==
    pc = "query_done" =>
    /\ engine # <<>> =>
           /\ q_is_str
           /\ Strip(query) # <<>>
           /\ StartsWith(Strip(Upper(query)), SELECT)
           /\ \A keyword \in DangerousKeywords : ~Contains(Strip(Upper(query)), keyword)
           /\ engine = <<query>>
    /\ (engine # <<>>) <=> (q_outcome \in {"executed", "engine_error"})
    /\ ~q_escaped
    /\ conn = "data/tpc-h.db"

\* a keyword that spans two words of a lower-case select keeps the engine
\* from being called
C19_Witness ==
    /\ pc = "query_done"
    /\ q_outcome = "restricted"
    /\ StartsWith(Strip(Upper(query)), SELECT)
    /\ ~StartsWith(query, SELECT)
    /\ query \notin DangerousKeywords
    /\ engine = <<>>

\* the string literals of s: the maximal ranges <<lo, hi>> of characters
\* that lie inside closed literals
Literals(s) ==
    LET cls == Class(s)
        In(k) == k \in 1..Len(s) /\ cls[k] = "str"
    IN  {r \in (1..Len(s)) \X (1..Len(s)) :
            /\ r[1] <= r[2]
            /\ \A k \in r[1]..r[2] : In(k)
            /\ ~In(r[1] - 1)
            /\ ~In(r[2] + 1)}

\* C21: every string literal of the input of remove_sql_comments is in its
\* output, whole and unchanged.
C21_LiteralsPreserved ==
    pc = "fallback" =>
    \A r \in Literals(text) : Contains(no_comments, SubSeq(text, r[1], r[2]))

\* how many times x occurs in seq
Count(seq, x) == Cardinality({k \in 1..Len(seq) : seq[k] = x})

\* C22: in a run of execute_sql_file the fallback is entered only after the
\* whole-file execution raised, and no statement is executed successfully
\* more often than the file holds it.
C22_AtMostOnce ==
    pc = "file_done" =>
    /\ handed # <<>> => file_failed
    /\ \A stmt \in StatementPool : Count(executed, stmt) <= Count(x_statements, stmt)

\* setup_starwars has returned
StarwarsReturned == sw_path \in {"connect_raised", "missing", "executed", "close_raised"}

\* C23, as stated: whenever setup_starwars has returned, self.conn is the
\* connection of before the call, the temporary connection has been closed
\* and no statement of the script went to the original connection.
C23_RestoredAndClosed ==
    StarwarsReturned =>
    /\ conn = conn_before
    /\ sw_temp # "open"
    /\ \A k \in 1..Len(submitted) :
           submitted[k][2] = "script" => submitted[k][1] # conn_before

\* C23, amended: whenever setup_starwars has returned, self.conn is the
\* connection of before the call and no statement of the script went to
\* it; the temporary connection has been closed unless its close() raised.
C23_RestoredClosedUnlessCloseRaised ==
    StarwarsReturned =>
    /\ conn = conn_before
    /\ sw_path # "close_raised" => sw_temp # "open"
    /\ \A k \in 1..Len(submitted) :
           submitted[k][2] = "script" => submitted[k][1] # conn_before

\* close() raised after the script had run: the except clause restored
\* self.conn
C23_Witness ==
    /\ sw_path = "close_raised"
    /\ submitted # <<>>
    /\ conn = "data/tpc-h.db"
    /\ pc = "input"

\* C24: when main has finished and no close() raised, no connection is open.
C24_AllClosed ==
    (pc = "main_done" /\ ~close_raised) => \A db \in Databases : open_conns[db] = 0

\* C27: the INSERT statement of a sanitized value is split into exactly one
\* statement, which holds the sanitized value whole.
C27_SanitizedValueSurvives ==
    pc = "loaded" =>
    /\ Len(statements) = 1
    /\ Contains(statements[1], sanitized)

\* C25: _validate_file_path never raises; for a path that resolves outside
\* the working directory, leads to nothing, or leads to something that is
\* not a regular file, it returns None and execute_file reads no file and
\* submits no statement.
C25_InvalidPathDoesNothing ==
    pc = "file_run" =>
    /\ ~v_raised
    /\ (~path.inside \/ path.kind = "missing" \/ path.kind # "file") =>
           /\ validated = "None"
           /\ files_read = 0
           /\ engine = <<>>

\* a readable file with a statement in it, outside the working directory
C25_Witness ==
    /\ pc = "file_run"
    /\ path.resolves /\ ~path.inside /\ path.kind = "file"
    /\ SplitSqlStatements(text) # <<>>
    /\ validated = "None"
    /\ engine = <<>>

\* c and d are the same letter, whatever their case
SameLetter(c, d) ==
    \/ c = d
    \/ \E k \in 1..Len(LowerCase) : {c, d} = {LowerCase[k], UpperCase[k]}

\* s holds the letters of word, in any case, at position k
HoldsAt(s, word, k) ==
    /\ k + Len(word) - 1 <= Len(s)
    /\ \A j \in 1..Len(word) : SameLetter(s[k + j - 1], word[j])

\* C26: when the file that main has read holds the letters MERGE, in any
\* case and anywhere, nothing is submitted to the engine, main returns with
\* no failure exit and the connection is closed.
C26_MergeFileNotSubmitted ==
    (/\ pc = "main_returned"
     /\ m_read
     /\ \E k \in 1..Len(text) : HoldsAt(text, MERGE, k))
    => /\ engine = <<>>
       /\ exit_status = 0
       /\ ~con_open

\* a file with merge, in lower case, inside a comment that follows other
\* text
C26_Witness ==
    /\ pc = "main_returned"
    /\ m_read
    /\ \E k \in 3..Len(text) :
           /\ HoldsAt(text, <<"m", "e", "r", "g", "e">>, k)
           /\ text[k - 1] = DASH /\ text[k - 2] = DASH
           /\ k > 3
    /\ ~Contains(text, MERGE)
    /\ engine = <<>>
    /\ exit_status = 0
====
